---- MODULE Spec2Model ----
(***************************************************************************)
(* Model of the JavaScript evaluation endpoint (src/app/api/eval/route.ts):*)
(* the POST handler, safeEval, the blocklist scan, the console capture of  *)
(* the generated function and the JSON response it sends.                  *)
(*                                                                         *)
(* A snippet is kept as (length, text pieces, program): the text pieces    *)
(* are what the scan reads, the program is what the engine does when the   *)
(* text is run.  The pieces are cut so that a blocklisted word occurring   *)
(* in the text is a piece of its own, so String.includes is "some piece    *)
(* equals the word".                                                       *)
(***************************************************************************)
EXTENDS Integers, Sequences, FiniteSets, TLC

VARIABLES
    pc,         \* position of the POST handler
    body,       \* what request.json() yields for the call in hand
    code,       \* the destructured code field
    context,    \* the destructured context field
    startTime,  \* route.ts:138
    now,        \* Date.now()
    results,    \* the generated function's results array (route.ts:65)
    calls,      \* history: the console calls the snippet has made, in order
    ip,         \* next statement of the snippet
    spin,       \* a local of the snippet, flipped by its loop body
    runs,       \* how many times snippet code was started in this call
    fnResult,   \* the object the generated function returned
    thrown,     \* the value in flight to a catch clause
    resp,       \* the response of the call in hand
    sent,       \* responses returned for the call in hand
    scope,      \* the safeContext object safeEval built last (route.ts:6-27)
    host,       \* the process's built-in objects: their property tag
    mutated,    \* history: some snippet has assigned to its response
    \* The JavaScript console (src/components/javascript-console.tsx).
    editor,           \* the code state: the text in the editor
    isExecuting,      \* the isExecuting state
    consoleOutput,    \* the consoleOutput state: the displayed log
    executionResult,  \* the executionResult state
    flights,          \* the /api/eval requests started and not yet settled
    shown,            \* history: the evaluation the displayed log was built from
    \* The history route (src/app/api/history/route.ts).
    requestHistory,   \* the module's requestHistory array (route.ts:5)
    saves,            \* how many items were saved since the start
    hresp,            \* the response on its way to the client, or HistoryThrew
    hprev,            \* history: requestHistory before the request it answers
    \* The proxy route (src/app/api/proxy/route.ts).
    proxyPc,          \* position of its POST handler
    proxyBody,        \* what request.json() yielded
    fetchOptions,     \* the options of the outbound fetch (route.ts:27-43)
    fetched,          \* what the await of fetch ended with (route.ts:48)
    proxyResp,        \* the response of the handler
    \* The dashboard (src/app/page.tsx).
    activeRequest,    \* the activeRequest state
    activeResponse,   \* the activeResponse state
    isLoading,        \* the isLoading state
    pageHistory,      \* the requestHistory state of the page
    inFlight,         \* the request handleRequestSend is awaiting the proxy for
    sends             \* how many requests were sent

evalVars == <<pc, body, code, context, startTime, now, results, calls, ip, spin, runs,
              fnResult, thrown, resp, sent, scope, host, mutated>>
consoleVars == <<editor, isExecuting, consoleOutput, executionResult, flights, shown>>
historyVars == <<requestHistory, saves, hresp, hprev>>
proxyVars == <<proxyPc, proxyBody, fetchOptions, fetched, proxyResp>>
pageVars == <<activeRequest, activeResponse, isLoading, pageHistory, inFlight, sends>>
vars == <<evalVars, consoleVars, historyVars, proxyVars, pageVars>>
\* What the evaluation endpoint does not touch.
notEval == <<consoleVars, historyVars, proxyVars, pageVars>>
\* What the console component does not touch.
notConsole == <<evalVars, historyVars, proxyVars, pageVars>>
\* What the history route does not touch.
notHistory == <<evalVars, consoleVars, proxyVars, pageVars>>
\* What the proxy route does not touch.
notProxy == <<evalVars, consoleVars, historyVars, pageVars>>
\* What the dashboard does not touch.
notPage == <<evalVars, consoleVars, historyVars, proxyVars>>

(***************************************************************************)
(* Bounds of the model.                                                    *)
(***************************************************************************)
\* The engine's call stack: how many nested calls fit before RangeError.
MaxStackDepth == 3
\* Date.now() is followed up to this value.
MaxNow == 2

(***************************************************************************)
(* JavaScript values.                                                      *)
(***************************************************************************)
Undef == [t |-> "undefined"]
Null == [t |-> "null"]
NaN == [t |-> "NaN"]
BigIntVal == [t |-> "bigint"]
Num(n) == [t |-> "number", n |-> n]
Str(s) == [t |-> "string", s |-> s]
\* An object with the one property the snippets read, a (Undef: not there).
Obj(a) == [t |-> "object", a |-> a]
\* An Error instance (Error, TypeError, ReferenceError, RangeError, SyntaxError).
Err(name, message) == [t |-> "Error", name |-> name, message |-> message]
\* An object whose toJSON method throws v.
ToJSONThrows(v) == [t |-> "toJSONThrows", v |-> v]
\* The context object of a request body.
Ctx(response, request) == [t |-> "context", response |-> response, request |-> request]
\* No value in flight.
NoThrow == [t |-> "none"]
\* A built-in object of the process, the same one in every evaluation.
Builtin(id) == [t |-> "builtin", id |-> id]
\* The built-ins that are functions.
BuiltinFunctions ==
    {"Object", "Array", "String", "Number", "Date", "RegExp", "Function", "Error",
     "Symbol", "Promise", "setImmediate"}

\* A code string: its length, its text pieces, whether it parses as a
\* function body, the free names it refers to, and what it does when run.
Code(len, atoms, parses, free, prog) ==
    [t |-> "string", len |-> len, atoms |-> atoms, parses |-> parses,
     free |-> free, prog |-> prog]

\* ToBoolean, as used by !code, context || {} and context.response || {}.
Truthy(v) ==
    CASE v.t = "undefined" -> FALSE
      [] v.t = "null" -> FALSE
      [] v.t = "NaN" -> FALSE
      [] v.t = "number" -> v.n # 0
      [] v.t = "string" -> IF "len" \in DOMAIN v THEN v.len > 0 ELSE v.s # ""
      [] OTHER -> TRUE

TypeOf(v) ==
    CASE v.t = "undefined" -> "undefined"
      [] v.t \in {"number", "NaN"} -> "number"
      [] v.t = "string" -> "string"
      [] v.t = "bigint" -> "bigint"
      [] OTHER -> "object"

\* x || {}
\* A value passed on as it was given.
AsGiven(v) == v
OrEmpty(v) == IF Truthy(v) THEN v ELSE Obj(Undef)

\* v.name: a property read.  [ok, v] or, on null and undefined, the TypeError.
GetProp(v, name) ==
    IF v.t \in {"undefined", "null"}
    THEN [ok |-> FALSE,
          v |-> Err("TypeError", "Cannot read properties of " \o v.t
                                  \o " (reading '" \o name \o "')")]
    ELSE IF name \in DOMAIN v /\ name # "t"
         THEN [ok |-> TRUE, v |-> IF name = "message" THEN Str(v[name]) ELSE v[name]]
         ELSE [ok |-> TRUE, v |-> Undef]

(***************************************************************************)
(* JSON serialisation, as NextResponse.json does it (JSON.stringify).      *)
(***************************************************************************)
NoFields == [k \in {} |-> Undef]

\* JSON.stringify(v) either completes or throws: [ok] or [ok, v: thrown].
RECURSIVE Stringify(_)
Stringify(v) ==
    CASE v.t = "bigint" ->
            [ok |-> FALSE, v |-> Err("TypeError", "Do not know how to serialize a BigInt")]
      [] v.t = "toJSONThrows" -> [ok |-> FALSE, v |-> v.v]
      [] v.t = "object" -> Stringify(v.a)
      [] v.t = "builtin" /\ v.id = "globalThis" ->
            [ok |-> FALSE,
             v |-> Err("TypeError", "Converting circular structure to JSON")]
      [] OTHER -> [ok |-> TRUE, v |-> Undef]

\* The value the reader of the JSON text gets for a serialisable v.
RECURSIVE JsonValue(_)
JsonValue(v) ==
    CASE v.t = "NaN" -> Null
      [] v.t = "object" -> Obj(IF v.a.t = "undefined" THEN Undef ELSE JsonValue(v.a))
      [] v.t = "builtin" -> IF v.id \in BuiltinFunctions THEN Undef ELSE Obj(Undef)
      [] OTHER -> v

\* A property of a serialised object: left out when its value is undefined.
JsonField(name, v) ==
    IF JsonValue(v).t = "undefined" THEN NoFields ELSE name :> JsonValue(v)

\* An element of a serialised array: null when its value is undefined.
JsonElement(v) == IF JsonValue(v).t = "undefined" THEN Null ELSE JsonValue(v)

JsonEntry(e) ==
    [type |-> e.type,
     args |-> [i \in 1..Len(e.args) |-> JsonElement(e.args[i])],
     timestamp |-> e.timestamp]

JsonConsole(rs) == [i \in 1..Len(rs) |-> JsonEntry(rs[i])]

\* The first value of vs whose serialisation throws, as [ok, v].
RECURSIVE StringifyAll(_)
StringifyAll(vs) ==
    IF vs = <<>> THEN [ok |-> TRUE, v |-> Undef]
    ELSE IF ~Stringify(Head(vs)).ok THEN Stringify(Head(vs))
         ELSE StringifyAll(Tail(vs))

(***************************************************************************)
(* safeEval: the capability context and the blocklist scan.                *)
(***************************************************************************)
MaxCodeLength == 10000

safeContextKeys ==
    <<"response", "request", "JSON", "console", "Object", "Array", "String",
      "Number", "Date", "Math", "RegExp">>

\* A capability context kept from one evaluation to the next.
safeContextKept(ctx) ==
    IF scope.response.t = "undefined"
    THEN [response |-> OrEmpty(GetProp(OrEmpty(ctx), "response").v),
          request |-> OrEmpty(GetProp(OrEmpty(ctx), "request").v)]
    ELSE scope

\* The two data bindings of safeContext (route.ts:8-9); safeEval gets
\* context || {} from POST (route.ts:139).
safeContext(ctx) ==
    [response |-> OrEmpty(GetProp(OrEmpty(ctx), "response").v),
     request |-> OrEmpty(GetProp(OrEmpty(ctx), "request").v)]

dangerousKeywords ==
    <<"eval", "Function", "setTimeout", "setInterval", "clearTimeout",
      "clearInterval", "XMLHttpRequest", "fetch", "import", "require",
      "process", "global", "__dirname", "__filename", "Buffer", "module",
      "exports">>

\* The sources of the regular expressions.
dangerousPatterns ==
    <<"constructor", "prototype", "__proto__", "window", "document",
      "location", "navigator", "this\\.">>

\* code.includes(keyword)
Includes(c, keyword) == \E i \in 1..Len(c.atoms) : c.atoms[i] = keyword

\* The pattern's source looked for as a plain text.
PatternSourceIncluded(source, c) == \E i \in 1..Len(c.atoms) : c.atoms[i] = source

\* pattern.test(code), the pattern fresh from its literal (lastIndex 0).
PatternTest(source, c) ==
    \E i \in 1..Len(c.atoms) :
        c.atoms[i] = (IF source = "this\\." THEN "this." ELSE source)

KeywordHits(c) == {i \in 1..Len(dangerousKeywords) : Includes(c, dangerousKeywords[i])}
PatternHits(c) == {i \in 1..Len(dangerousPatterns) : PatternTest(dangerousPatterns[i], c)}
First(S) == CHOOSE i \in S : \A j \in S : i <= j

\* A scan that has the keyword loop only.
ScanKeywordsOnly(c) ==
    IF KeywordHits(c) # {}
    THEN Err("Error", "Unsafe code detected: "
                      \o dangerousKeywords[First(KeywordHits(c))] \o " is not allowed")
    ELSE NoThrow

\* What the two scanning loops throw, or NoThrow when the text passes.
ScanError(c) ==
    IF KeywordHits(c) # {}
    THEN Err("Error", "Unsafe code detected: "
                      \o dangerousKeywords[First(KeywordHits(c))] \o " is not allowed")
    ELSE IF PatternHits(c) # {}
         THEN Err("Error", "Unsafe code pattern detected: "
                           \o dangerousPatterns[First(PatternHits(c))])
         ELSE NoThrow

(***************************************************************************)
(* The generated function: console capture and the snippet's statements.   *)
(***************************************************************************)
\* Statements and expressions of the snippets.
Log(type, v) == [op |-> "log", type |-> type, v |-> v, guarded |-> FALSE]
\* try { console.<type>(v) } catch (e) {}
TryLog(type, v) == [op |-> "log", type |-> type, v |-> v, guarded |-> TRUE]
Return(e) == [op |-> "return", e |-> e]
Throw(v) == [op |-> "throw", v |-> v]
\* while (true) { spin = !spin }
Loop == [op |-> "loop"]
Const(v) == [e |-> "const", v |-> v]
\* response.a + n
ResponseAPlus(n) == [e |-> "response.a+", n |-> n]

Eval(e, sc) ==
    IF e.e = "const" THEN e.v
    ELSE LET a == GetProp(sc.response, "a").v
         IN  IF a.t = "number" THEN Num(a.n + e.n) ELSE NaN

\* response.a = v; (v = Undef: delete response.a;)
SetResponseA(v) == [op |-> "setResponse", v |-> v]
\* <name>.tag = v; for a built-in bound in safeContext
SetShared(name, v) == [op |-> "setShared", name |-> name, v |-> v]
\* An identifier.
Name(n) == [e |-> "name", n |-> n]
\* of.p or of["p"], the property name written in any way
Member(of, p) == [e |-> "member", of |-> of, p |-> p]
\* f(src)(): f called with a string, and what it returns called
Invoke(f, src) == [e |-> "invoke", f |-> f, src |-> src]

\* The built-ins safeContext binds by reference (route.ts:11, 19-26).
SharedNames == {"JSON", "Object", "Array", "String", "Number", "Date", "Math", "RegExp"}
\* The process as started: no built-in has a property tag.
PristineHost == [n \in SharedNames |-> Undef]
\* Names of the global scope, which the body of a function made by
\* new Function resolves after its parameters (route.ts:63).
GlobalNames == {"Error", "Symbol", "Promise", "setImmediate"}
NoScope == [response |-> Undef, request |-> Undef]

\* The value of identifier n in the generated function: [ok, v].
Resolve(n, sc, h) ==
    IF n \in {"response", "request"} THEN [ok |-> TRUE, v |-> sc[n]]
    ELSE IF n \in {safeContextKeys[i] : i \in 1..Len(safeContextKeys)} \cup GlobalNames
         THEN [ok |-> TRUE, v |-> Builtin(n)]
         ELSE [ok |-> FALSE, v |-> Err("ReferenceError", n \o " is not defined")]

\* v[p]: [ok, v].
ReadMember(v, p, h) ==
    CASE v.t \in {"undefined", "null"} -> GetProp(v, p)
      [] v.t = "builtin" /\ p = "constructor" ->
            [ok |-> TRUE,
             v |-> IF v.id \in BuiltinFunctions THEN Builtin("Function")
                   ELSE Builtin("Object")]
      [] v.t = "builtin" /\ p = "tag" /\ v.id \in SharedNames ->
            [ok |-> TRUE, v |-> h[v.id]]
      [] v.t = "object" /\ p = "constructor" -> [ok |-> TRUE, v |-> Builtin("Object")]
      [] v.t = "object" /\ p = "a" -> [ok |-> TRUE, v |-> v.a]
      [] OTHER -> [ok |-> TRUE, v |-> Undef]

\* f(src)(): the Function constructor compiles src in the global scope, and
\* a plain call of a non-strict function has the global object as this.
CallWithSource(f, src) ==
    IF f = Builtin("Function") /\ src = "return this"
    THEN [ok |-> TRUE, v |-> Builtin("globalThis")]
    ELSE [ok |-> FALSE, v |-> Err("TypeError", "f(...) is not a function")]

\* The value of expression e, or what its evaluation throws: [ok, v].
RECURSIVE Evaluate(_, _, _)
Evaluate(e, sc, h) ==
    CASE e.e = "name" -> Resolve(e.n, sc, h)
      [] e.e = "member" ->
            LET o == Evaluate(e.of, sc, h)
            IN  IF o.ok THEN ReadMember(o.v, e.p, h) ELSE o
      [] e.e = "invoke" ->
            LET f == Evaluate(e.f, sc, h)
            IN  IF f.ok THEN CallWithSource(f.v, e.src) ELSE f
      [] OTHER -> [ok |-> TRUE, v |-> Eval(e, sc)]

RangeError == Err("RangeError", "Maximum call stack size exceeded")

\* A call of an overridden console method with `stack` frames left
\* (route.ts:69-84): it pushes its entry and then calls the same method of
\* originalConsole.  originalConsole is the console object itself
\* (route.ts:66 copies the reference), so that call is the override again.
RECURSIVE ConsoleCall(_, _, _, _, _)
ConsoleCall(rs, type, args, t, stack) ==
    IF stack = 0
    THEN [results |-> rs, thrown |-> RangeError]
    ELSE ConsoleCall(Append(rs, [type |-> type, args |-> args, timestamp |-> t]),
                     type, args, t, stack - 1)

\* The inner catch (route.ts:96-102) for the value e: the result object, or
\* what reading e.message throws.
InnerCatch(e, rs) ==
    LET m == GetProp(e, "message")
    IN  IF m.ok
        THEN [ok |-> TRUE,
              r |-> [result |-> Null, console |-> rs, error |-> m.v, success |-> FALSE]]
        ELSE [ok |-> FALSE, v |-> m.v]

\* The outer catch of safeEval (route.ts:107-108).
OuterCatch(e) ==
    Err("Error", "Execution error: "
                 \o (IF e.t = "Error" THEN e.message ELSE "Unknown error"))

NoResult == [result |-> Undef, console |-> <<>>, error |-> Undef, success |-> FALSE]
NoResp == [status |-> 0, body |-> NoFields]

\* The body of the 400 response of POST's catch clause (route.ts:151-158).
CaughtBody(message, timestamp) ==
    ("result" :> Null)
    @@ ("console" :> <<>>)
    @@ JsonField("error", message)
    @@ ("success" :> FALSE)
    @@ ("executionTime" :> 0)
    @@ ("timestamp" :> timestamp)

\* The console component has assembled no log.
NoShown == [ran |-> [success |-> FALSE], reply |-> [status |-> 0 - 1]]

\* The body of the 200 response (route.ts:142-146).
ResultBody(r, executionTime, timestamp) ==
    JsonField("result", r.result)
    @@ ("console" :> JsonConsole(r.console))
    @@ JsonField("error", r.error)
    @@ ("success" :> r.success)
    @@ ("executionTime" :> executionTime)
    @@ ("timestamp" :> timestamp)

(***************************************************************************)
(* The requests the model sends.                                           *)
(***************************************************************************)
BoomMessage == "boom"

\* ""
snippetEmpty == Code(0, <<>>, TRUE, {}, <<>>)
\* "   "
snippetBlank == Code(3, <<"   ">>, TRUE, {}, <<>>)
\* return response.a + 1;
snippetRoundTrip ==
    Code(22, <<"return response.a + 1;">>, TRUE, {"response"}, <<Return(ResponseAPlus(1))>>)
\* console.log("a"); console.log("b");
snippetLogAB ==
    Code(35, <<"console.log(\"a\"); console.log(\"b\");">>, TRUE, {"console"},
         <<Log("log", Str("a")), Log("log", Str("b"))>>)
\* console.warn("a"); return 1;
snippetWarnReturn ==
    Code(28, <<"console.warn(\"a\"); return 1;">>, TRUE, {"console"},
         <<Log("warn", Str("a")), Return(Const(Num(1)))>>)
\* try { console.info("a"); } catch (e) {} return 1;
snippetTryLog ==
    Code(49, <<"try { console.info(\"a\"); } catch (e) {} return 1;">>, TRUE, {"console"},
         <<TryLog("info", Str("a")), Return(Const(Num(1)))>>)
\* try { console.log("a"); } catch (e) {} throw null;
snippetTryLogThrowNull ==
    Code(52, <<"try { console.log(\"a\"); } catch (e) {} throw null;">>, TRUE,
         {"console"}, <<TryLog("log", Str("a")), Throw(Null)>>)
\* let s = false; while (true) { s = !s; }
snippetLoop == Code(39, <<"let s = false; while (true) { s = !s; }">>, TRUE, {}, <<Loop>>)
\* throw new Error("boom");
snippetThrowError ==
    Code(24, <<"throw new Error(\"boom\");">>, TRUE, {"Error"}, <<Throw(Err("Error", BoomMessage))>>)
\* throw "boom";
snippetThrowString == Code(13, <<"throw \"boom\";">>, TRUE, {}, <<Throw(Str(BoomMessage))>>)
\* throw null;
snippetThrowNull == Code(11, <<"throw null;">>, TRUE, {}, <<Throw(Null)>>)
\* throw undefined;
snippetThrowUndefined == Code(16, <<"throw undefined;">>, TRUE, {}, <<Throw(Undef)>>)
\* return null.x;
snippetTypeError ==
    Code(14, <<"return null.x;">>, TRUE, {}, <<Throw(GetProp(Null, "x").v)>>)
\* return foo;
snippetReferenceError ==
    Code(11, <<"return foo;">>, TRUE, {"foo"}, <<Return(Name("foo"))>>)
\* return response.a + 1; // not a process
snippetComment ==
    Code(39, <<"return response.a + 1; // not a ", "process">>, TRUE, {"response"},
         <<Return(ResponseAPlus(1))>>)
\* setTimeout(() => 1, 0);
snippetSetTimeout == Code(23, <<"setTimeout", "(() => 1, 0);">>, TRUE, {"setTimeout"}, <<>>)
\* return this.x;
snippetThisDot ==
    Code(14, <<"return ", "this.", "x;">>, TRUE, {}, <<Throw(GetProp(Undef, "x").v)>>)
\* return { toJSON() { throw null; } };
snippetToJSON ==
    Code(36, <<"return { toJSON() { throw null; } };">>, TRUE, {},
         <<Return(Const(ToJSONThrows(Null)))>>)
\* return 1n;
snippetBigInt == Code(10, <<"return 1n;">>, TRUE, {}, <<Return(Const(BigIntVal))>>)
\* return (;
snippetSyntaxError == Code(9, <<"return (;">>, FALSE, {}, <<>>)
\* return null;
snippetReturnNull == Code(12, <<"return null;">>, TRUE, {}, <<Return(Const(Null))>>)
\* return Symbol;
snippetGlobalName ==
    Code(14, <<"return Symbol;">>, TRUE, {"Symbol"},
         <<Return(Name("Symbol"))>>)
\* return Object["constr" + "uctor"];
snippetFunctionCtor ==
    Code(34, <<"return Object[\"constr\" + \"uctor\"];">>, TRUE, {"Object"},
         <<Return(Member(Name("Object"), "constructor"))>>)
\* return Object["constr" + "uctor"]("return this")();
snippetGlobalObject ==
    Code(51, <<"return Object[\"constr\" + \"uctor\"](\"return this\")();">>, TRUE, {"Object"},
         <<Return(Invoke(Member(Name("Object"), "constructor"), "return this"))>>)
\* return setImmediate;
snippetSetImmediate ==
    Code(20, <<"return ", "setImmediate", ";">>, TRUE, {"setImmediate"},
         <<Return(Name("setImmediate"))>>)
\* Math.tag = 1;
snippetSetMathTag ==
    Code(13, <<"Math.tag = 1;">>, TRUE, {"Math"},
         <<SetShared("Math", Num(1))>>)
\* return Math.tag;
snippetGetMathTag ==
    Code(16, <<"return Math.tag;">>, TRUE, {"Math"},
         <<Return(Member(Name("Math"), "tag"))>>)
\* response.a = 9; return response.a;
snippetSetResponse ==
    Code(34, <<"response.a = 9; return response.a;">>, TRUE, {"response"},
         <<SetResponseA(Num(9)), Return(Member(Name("response"), "a"))>>)
\* delete response.a;
snippetDeleteResponse ==
    Code(18, <<"delete response.a;">>, TRUE, {"response"},
         <<SetResponseA(Undef)>>)
\* return 1; // followed by a comment that fills the text to the length
snippetMaxLength ==
    Code(MaxCodeLength, <<"return 1; //", "xxx...">>, TRUE, {}, <<Return(Const(Num(1)))>>)
snippetTooLong ==
    Code(MaxCodeLength + 1, <<"return 1; //", "xxx...">>, TRUE, {}, <<Return(Const(Num(1)))>>)

Snippets ==
    {snippetEmpty, snippetBlank, snippetRoundTrip, snippetLogAB, snippetWarnReturn,
     snippetTryLog, snippetLoop, snippetThrowError, snippetThrowString,
     snippetThrowNull, snippetThrowUndefined, snippetTypeError,
     snippetReferenceError, snippetComment, snippetSetTimeout, snippetThisDot,
     snippetToJSON, snippetBigInt, snippetSyntaxError, snippetReturnNull,
     snippetMaxLength, snippetTooLong, snippetGlobalName, snippetFunctionCtor,
     snippetSetImmediate, snippetTryLogThrowNull,
     snippetGlobalObject, snippetSetMathTag, snippetGetMathTag,
     snippetSetResponse, snippetDeleteResponse}

\* The code field of a body: missing, a number, or a string.
CodeValues == {Undef, Num(123)} \cup Snippets

\* The context field of a body: missing, {response: {a: 1}} or
\* {request: {a: 2}}.
ContextValues == {Undef, Ctx(Obj(Num(1)), Undef), Ctx(Undef, Obj(Num(2)))}

BodyNotJson == [t |-> "notjson"]
BodyObject(c, x) == [t |-> "body", code |-> c, context |-> x]
Bodies ==
    {BodyNotJson, Null} \cup {BodyObject(c, x) : c \in CodeValues, x \in ContextValues}

(***************************************************************************)
(* The POST handler.                                                       *)
(***************************************************************************)
\* The evaluation endpoint before any request.
InitEval ==
    /\ pc = "idle"
    /\ body = Null
    /\ code = Undef
    /\ context = Undef
    /\ startTime = 0
    /\ now = 0
    /\ results = <<>>
    /\ calls = <<>>
    /\ ip = 1
    /\ spin = FALSE
    /\ runs = 0
    /\ fnResult = NoResult
    /\ thrown = NoThrow
    /\ resp = NoResp
    /\ sent = 0
    /\ scope = NoScope
    /\ host = PristineHost
    /\ mutated = FALSE

\* The console component as mounted (javascript-console.tsx:143-146).
InitConsole ==
    /\ editor = snippetEmpty
    /\ isExecuting = FALSE
    /\ consoleOutput = <<>>
    /\ executionResult = Null
    /\ flights = <<>>
    /\ shown = NoShown

\* The history route with the store h.
InitHistory(h) ==
    /\ requestHistory = h
    /\ saves = 0
    /\ hresp = NoResp
    /\ hprev = <<>>

\* The proxy route before any request.
InitProxy ==
    /\ proxyPc = "idle"
    /\ proxyBody = Null
    /\ fetchOptions = Null
    /\ fetched = Null
    /\ proxyResp = NoResp

\* The dashboard as mounted (page.tsx:31-34).
InitPage ==
    /\ activeRequest = Null
    /\ activeResponse = Null
    /\ isLoading = FALSE
    /\ pageHistory = <<>>
    /\ inFlight = Null
    /\ sends = 0

Init == InitEval /\ InitConsole /\ InitHistory(<<>>) /\ InitProxy /\ InitPage

\* Date.now() moves on.
Tick ==
    /\ now < MaxNow
    /\ UNCHANGED <<scope, host, mutated, notEval>>
    /\ now' = now + 1
    /\ UNCHANGED <<pc, body, code, context, startTime, results, calls, ip, spin, runs,
                   fnResult, thrown, resp, sent>>

\* A request arrives; the handler of the one before has ended.
Receive ==
    /\ pc \in {"idle", "responded", "escaped"}
    /\ UNCHANGED <<scope, host, mutated, notEval>>
    /\ \E b \in Bodies : body' = b
    /\ pc' = "json"
    /\ code' = Undef
    /\ context' = Undef
    /\ startTime' = 0
    /\ results' = <<>>
    /\ calls' = <<>>
    /\ ip' = 1
    /\ spin' = FALSE
    /\ runs' = 0
    /\ fnResult' = NoResult
    /\ thrown' = NoThrow
    /\ resp' = NoResp
    /\ sent' = 0
    /\ UNCHANGED now

\* route.ts:114-115: request.json() and the destructuring of its value.
ParseBody ==
    /\ pc = "json"
    /\ UNCHANGED <<scope, host, mutated, notEval>>
    /\ IF body.t = "notjson"
       THEN /\ thrown' = Err("SyntaxError", "Unexpected end of JSON input")
            /\ pc' = "catch"
            /\ UNCHANGED <<code, context>>
       ELSE IF body.t = "null"
       THEN /\ thrown' = Err("TypeError",
                             "Cannot destructure property 'code' of 'body' as it is null.")
            /\ pc' = "catch"
            /\ UNCHANGED <<code, context>>
       ELSE /\ code' = body.code
            /\ context' = body.context
            /\ pc' = "admit"
            /\ UNCHANGED thrown
    /\ UNCHANGED <<body, startTime, now, results, calls, ip, spin, runs, fnResult, resp, sent>>

\* NextResponse.json({ error }, { status: 400 })
Rejection(message) == [status |-> 400, body |-> ("error" :> Str(message))]

\* route.ts:117-136: what the checks answer for c, or NoResp when c passes.
AdmissionResponse(c) ==
    IF ~Truthy(c) THEN Rejection("Missing required field: code")
    ELSE IF TypeOf(c) # "string" THEN Rejection("Code must be a string")
    ELSE IF c.len > MaxCodeLength
         THEN Rejection("Code too long. Maximum 10,000 characters allowed.")
         ELSE NoResp

\* route.ts:117-138
Admit ==
    /\ pc = "admit"
    /\ UNCHANGED <<scope, host, mutated, notEval>>
    /\ IF AdmissionResponse(code) # NoResp
       THEN /\ resp' = AdmissionResponse(code)
            /\ sent' = sent + 1
            /\ pc' = "responded"
            /\ UNCHANGED startTime
       ELSE /\ startTime' = now
            /\ pc' = "scan"
            /\ UNCHANGED <<resp, sent>>
    /\ UNCHANGED <<body, code, context, now, results, calls, ip, spin, runs, fnResult, thrown>>

\* route.ts:4-59: safeEval up to the end of the scan.
Scan ==
    /\ pc = "scan"
    /\ scope' = safeContext(context)
    /\ UNCHANGED <<host, mutated, notEval>>
    /\ IF ScanError(code) # NoThrow
       THEN thrown' = ScanError(code) /\ pc' = "catch"
       ELSE pc' = "compile" /\ UNCHANGED thrown
    /\ UNCHANGED <<body, code, context, startTime, now, results, calls, ip, spin,
                   runs, fnResult, resp, sent>>

\* route.ts:61-66, 106: new Function(...) and the call of the function, up to
\* the snippet's first statement.
Compile ==
    /\ pc = "compile"
    /\ UNCHANGED <<scope, host, mutated, notEval>>
    /\ IF ~code.parses
       THEN /\ thrown' = OuterCatch(Err("SyntaxError", "Unexpected token ';'"))
            /\ pc' = "catch"
            /\ UNCHANGED <<results, ip, runs>>
       ELSE /\ results' = <<>>
            /\ ip' = 1
            /\ runs' = runs + 1
            /\ pc' = "running"
            /\ UNCHANGED thrown
    /\ UNCHANGED <<body, code, context, startTime, now, calls, spin, fnResult, resp, sent>>

\* The value e reaches the inner catch with rs captured (route.ts:96-109).
Raise(e, rs) ==
    LET ic == InnerCatch(e, rs)
    IN  IF ic.ok
        THEN fnResult' = ic.r /\ pc' = "returned" /\ UNCHANGED thrown
        ELSE thrown' = OuterCatch(ic.v) /\ pc' = "catch" /\ UNCHANGED fnResult

\* route.ts:91-95
Complete(v, rs) ==
    /\ fnResult' = [result |-> v, console |-> rs, error |-> Undef, success |-> TRUE]
    /\ pc' = "returned"
    /\ UNCHANGED thrown

\* route.ts:86-103: one statement of the snippet.
Step ==
    /\ pc = "running"
    /\ IF ip > Len(code.prog)
       THEN /\ Complete(Undef, results)
            /\ UNCHANGED <<results, calls, ip, spin, context, scope, host, mutated>>
       ELSE LET stmt == code.prog[ip]
            IN  CASE stmt.op = "log" ->
                       \E depth \in 2..MaxStackDepth :
                         LET c == ConsoleCall(results, stmt.type, <<stmt.v>>, now, depth)
                         IN  /\ results' = c.results
                             /\ calls' = Append(calls, [type |-> stmt.type,
                                                        args |-> <<stmt.v>>])
                             /\ UNCHANGED <<spin, context, scope, host, mutated>>
                             /\ IF c.thrown = NoThrow \/ stmt.guarded
                                THEN ip' = ip + 1 /\ UNCHANGED <<pc, fnResult, thrown>>
                                ELSE Raise(c.thrown, c.results) /\ UNCHANGED ip
                  [] stmt.op = "return" ->
                       LET r == Evaluate(stmt.e, scope, host)
                       IN  /\ IF r.ok THEN Complete(r.v, results) ELSE Raise(r.v, results)
                           /\ UNCHANGED <<results, calls, ip, spin, context, scope,
                                          host, mutated>>
                  [] stmt.op = "throw" ->
                       /\ Raise(stmt.v, results)
                       /\ UNCHANGED <<results, calls, ip, spin, context, scope, host,
                                      mutated>>
                  [] stmt.op = "loop" ->
                       /\ spin' = ~spin
                       /\ UNCHANGED <<pc, results, calls, ip, fnResult, thrown, context,
                                      scope, host, mutated>>
                  [] stmt.op = "setResponse" ->
                       \* safeContext.response is context.response itself when
                       \* that is truthy (route.ts:8), a fresh {} otherwise.
                       /\ scope' = [scope EXCEPT !.response = Obj(stmt.v)]
                       /\ context' = IF Truthy(GetProp(OrEmpty(context), "response").v)
                                     THEN [context EXCEPT !.response = Obj(stmt.v)]
                                     ELSE context
                       /\ mutated' = TRUE
                       /\ ip' = ip + 1
                       /\ UNCHANGED <<pc, results, calls, spin, fnResult, thrown, host>>
                  [] stmt.op = "setShared" ->
                       /\ host' = [host EXCEPT ![stmt.name] = stmt.v]
                       /\ ip' = ip + 1
                       /\ UNCHANGED <<pc, results, calls, spin, fnResult, thrown, context,
                                      scope, mutated>>
    /\ UNCHANGED <<body, code, startTime, now, runs, resp, sent, notEval>>

\* The values JSON.stringify visits in the success response, in order.
Visited(r) == <<r.result>> \o [i \in 1..Len(r.console) |-> r.console[i].args[1]]

\* route.ts:140-146
Respond ==
    /\ pc = "returned"
    /\ UNCHANGED <<scope, host, mutated, notEval>>
    /\ LET s == StringifyAll(Visited(fnResult))
       IN  IF s.ok
           THEN /\ resp' = [status |-> 200,
                            body |-> ResultBody(fnResult, now - startTime, now)]
                /\ sent' = sent + 1
                /\ pc' = "responded"
                /\ UNCHANGED thrown
           ELSE /\ thrown' = s.v
                /\ pc' = "catch"
                /\ UNCHANGED <<resp, sent>>
    /\ UNCHANGED <<body, code, context, startTime, now, results, calls, ip, spin, runs, fnResult>>

\* route.ts:148-161: the catch clause of POST; reading error.message of null
\* or undefined throws out of the handler.
PostCatch ==
    /\ pc = "catch"
    /\ UNCHANGED <<scope, host, mutated, notEval>>
    /\ LET m == GetProp(thrown, "message")
       IN  IF m.ok
           THEN /\ resp' = [status |-> 400, body |-> CaughtBody(m.v, now)]
                /\ sent' = sent + 1
                /\ pc' = "responded"
                /\ UNCHANGED thrown
           ELSE /\ thrown' = m.v
                /\ pc' = "escaped"
                /\ UNCHANGED <<resp, sent>>
    /\ UNCHANGED <<body, code, context, startTime, now, results, calls, ip, spin, runs, fnResult>>

Next ==
    \/ Tick
    \/ Receive
    \/ ParseBody
    \/ Admit
    \/ Scan
    \/ Compile
    \/ Step
    \/ Respond
    \/ PostCatch

Spec == Init /\ [][Next]_vars

\* The handler runs to its end once entered; requests and the clock are the
\* environment's.
Handler == ParseBody \/ Admit \/ Scan \/ Compile \/ Step \/ Respond \/ PostCatch
FairSpec == Spec /\ WF_vars(Handler)

(***************************************************************************)
(* The JavaScript console component (javascript-console.tsx:143-254).      *)
(* The endpoint is seen from outside: what a request is answered with is   *)
(* chosen among the result objects safeEval returns and the other replies  *)
(* of the route.                                                           *)
(***************************************************************************)
\* code.trim() is empty.
WhitespacePieces == {" ", "   ", "\t", "\n"}
EmptyAfterTrim(c) == \A i \in 1..Len(c.atoms) : c.atoms[i] \in WhitespacePieces

\* Requests of the component that can be in flight together.
MaxFlights == 2

\* What the user types.
EditorTexts == {snippetEmpty, snippetBlank, snippetRoundTrip, snippetGlobalName}
\* SAMPLE_SCRIPTS: none is blank.
SampleTexts == {snippetRoundTrip}

\* The results arrays a snippet can leave.
CapturedLogs == {<<>>, <<[type |-> "log", args |-> <<Str("a")>>, timestamp |-> 1]>>}
\* The values a snippet can return.
ReturnedValues == {Undef, Null, NaN, Num(2), Builtin("Symbol")}
\* route.ts:91-95 and 97-102: the objects the generated function returns.
EvalResults ==
    {[result |-> v, console |-> rs, error |-> Undef, success |-> TRUE] :
        v \in ReturnedValues, rs \in CapturedLogs}
    \cup {[result |-> Null, console |-> rs, error |-> Str(BoomMessage),
           success |-> FALSE] : rs \in CapturedLogs}
\* fetch rejected: there is no response.
NetworkFailure == NoResp
\* What a request of the component ends with: the evaluation that ran, if
\* one did, and the reply.
Outcomes ==
    {[ran |-> r, reply |-> [status |-> 200, body |-> ResultBody(r, 0, 1)]] :
        r \in EvalResults}
    \cup {[ran |-> NoResult, reply |-> x] :
            x \in {AdmissionResponse(snippetTooLong),
                   [status |-> 400,
                    body |-> CaughtBody(Str("Unsafe code detected: process is not allowed"), 1)],
                   NetworkFailure}}

\* o[name] of a parsed JSON object.
Field(o, name) == IF name \in DOMAIN o THEN o[name] ELSE Undef
\* javascript-console.tsx:195: result.success && result.result !== undefined
AppendsResult(result) ==
    /\ "success" \in DOMAIN result /\ result.success
    /\ "result" \in DOMAIN result

\* javascript-console.tsx:185-189: item.timestamp || Date.now()
Stamped(items, t) ==
    [i \in 1..Len(items) |->
        [items[i] EXCEPT !.timestamp = IF items[i].timestamp # 0
                                       THEN items[i].timestamp ELSE t]]

\* javascript-console.tsx:182-209: the log after the reply was handled,
\* shownBefore being the log before.
Assembled(reply, shownBefore, t) ==
    IF reply = NetworkFailure
    THEN <<[type |-> "error",
            args |-> <<Str("Execution failed:"), Str("Failed to fetch")>>,
            timestamp |-> t]>>
    ELSE LET result == reply.body
             logs == IF "console" \in DOMAIN result
                     THEN Stamped(result.console, t) ELSE shownBefore
         IN  IF AppendsResult(result)
             THEN Append(logs, [type |-> "result",
                                args |-> <<Field(result, "result")>>,
                                timestamp |-> t])
             ELSE logs

\* javascript-console.tsx:150-153
ClearedConsole ==
    /\ consoleOutput' = <<>>
    /\ executionResult' = Null
    /\ shown' = NoShown

\* onChange of the editor: setCode.
SetCode ==
    /\ \E c \in EditorTexts : editor' = c
    /\ UNCHANGED <<isExecuting, consoleOutput, executionResult, flights, shown, notConsole>>

\* javascript-console.tsx:155-158
LoadSample ==
    /\ \E c \in SampleTexts : editor' = c
    /\ ClearedConsole
    /\ UNCHANGED <<isExecuting, flights, notConsole>>

\* The Clear Output button (javascript-console.tsx:283).
ClearConsole ==
    /\ ClearedConsole
    /\ UNCHANGED <<editor, isExecuting, flights, notConsole>>

\* javascript-console.tsx:159-180: executeCode up to the await of fetch.
ExecuteCode ==
    /\ ~EmptyAfterTrim(editor)
    /\ Len(flights) < MaxFlights
    /\ isExecuting' = TRUE
    /\ ClearedConsole
    /\ flights' = Append(flights, BodyObject(editor, Ctx(Obj(Undef), Obj(Undef))))
    /\ UNCHANGED <<editor, notConsole>>

\* The Run Code button, disabled while executing
\* (javascript-console.tsx:286-292).
ClickRun == ~isExecuting /\ ExecuteCode

\* Ctrl+Enter in the editor (javascript-console.tsx:241-254).
CtrlEnter == ExecuteCode

\* javascript-console.tsx:180-212: a request settles and executeCode
\* runs to its end.
Settle ==
    \E i \in 1..Len(flights), o \in Outcomes :
        /\ flights' = SubSeq(flights, 1, i - 1) \o SubSeq(flights, i + 1, Len(flights))
        /\ consoleOutput' = Assembled(o.reply, consoleOutput, now)
        /\ executionResult' =
              IF o.reply = NetworkFailure
              THEN ("success" :> FALSE) @@ ("error" :> Str("Network error"))
              ELSE o.reply.body
        /\ isExecuting' = FALSE
        /\ shown' = o
        /\ UNCHANGED <<editor, notConsole>>

ConsoleNext ==
    \/ Tick
    \/ SetCode
    \/ LoadSample
    \/ ClearConsole
    \/ ClickRun
    \/ CtrlEnter
    \/ Settle

ConsoleSpec == Init /\ [][ConsoleNext]_vars

(***************************************************************************)
(* The history route (src/app/api/history/route.ts): GET, POST, DELETE     *)
(* over the module's requestHistory array.  An item is kept with the       *)
(* fields the handlers read (id, timestamp, method, response); url,        *)
(* headers and body are copied and never read.                             *)
(***************************************************************************)
\* route.ts:66-67
MaxHistory == 1000
\* Saves followed from the starting store.
MaxSaves == 2
\* Sizes of the store the model starts from.
StartSizes == {0, MaxHistory - 1}

\* Date.now() at the save that follows n saves: later than the times of
\* the items the store starts with, and growing.
SaveTime(n) == MaxHistory + n
\* generateId() for the save at time k (route.ts:137-139).
GeneratedId(k) == Str("req_" \o ToString(k))
\* route.ts:52-60
HistoryItem(apiRequest, response, k) ==
    [id |-> IF Truthy(Field(apiRequest, "id")) THEN apiRequest.id ELSE GeneratedId(k),
     timestamp |-> k,
     method |-> Field(apiRequest, "method"),
     response |-> IF Truthy(response) THEN response ELSE Null]
\* The store after k saves of {method: "GET"} with generated ids.
Filled(k) == [i \in 1..k |-> HistoryItem("method" :> Str("GET"), Undef, k - i + 1)]

\* A cut that keeps the last 1000.
KeptTail(h) == IF Len(h) > MaxHistory THEN SubSeq(h, Len(h) - MaxHistory + 1, Len(h)) ELSE h
\* route.ts:63-68: unshift, then slice(0, 1000).
Kept(h) == IF Len(h) > MaxHistory THEN SubSeq(h, 1, MaxHistory) ELSE h

\* String.prototype.toLowerCase on the texts of the model.
ToLowerCase(t) == CASE t = "GET" -> "get" [] t = "POST" -> "post" [] OTHER -> t
\* route.ts:19: item.method?.toLowerCase() === method.toLowerCase(), or
\* the TypeError when item.method has no toLowerCase.
MethodMatches(item, method) ==
    CASE item.method.t \in {"undefined", "null"} -> [ok |-> TRUE, v |-> FALSE]
      [] item.method.t = "string" ->
            [ok |-> TRUE, v |-> ToLowerCase(item.method.s) = ToLowerCase(method)]
      [] OTHER ->
            [ok |-> FALSE,
             v |-> Err("TypeError", "item.method?.toLowerCase is not a function")]
\* route.ts:25: item.response?.status?.toString() === status
StatusMatches(item, status) ==
    /\ item.response.t = "object"
    /\ item.response.a.t = "number"
    /\ ToString(item.response.a.n) = status

\* parseInt of the query texts of the model.
ParseInt(t) ==
    CASE t = "0" -> Num(0) [] t = "1" -> Num(1) [] t = "2" -> Num(2)
      [] t = "-1" -> Num(0 - 1) [] OTHER -> NaN
\* a + b of two numbers.
Plus(a, b) == IF a.t = "number" /\ b.t = "number" THEN Num(a.n + b.n) ELSE NaN
\* An index of Array.prototype.slice, brought into 0..n.
SliceIndex(x, n) ==
    IF x.t # "number" THEN 0
    ELSE IF x.n < 0 THEN (IF n + x.n < 0 THEN 0 ELSE n + x.n)
         ELSE IF x.n > n THEN n ELSE x.n
\* A slice that takes its second argument for a length.
SliceByLength(h, start, end) ==
    LET from == SliceIndex(start, Len(h))
        to == from + SliceIndex(end, Len(h))
    IN  SubSeq(h, from + 1, IF to > Len(h) THEN Len(h) ELSE to)
\* Array.prototype.slice(start, end)
Slice(h, start, end) == SubSeq(h, SliceIndex(start, Len(h)) + 1, SliceIndex(end, Len(h)))

\* The handler threw: GET has no catch clause.
HistoryThrew == [status |-> 0 - 1, body |-> NoFields]

\* route.ts:14-27: the filtered copy, or the fault of the method filter.
Filtered(h, method, status) ==
    LET byMethod == IF method = "" THEN h
                    ELSE SelectSeq(h, LAMBDA item : MethodMatches(item, method).ok
                                                    /\ MethodMatches(item, method).v)
    IN  [ok |-> method = "" \/ \A i \in 1..Len(h) : MethodMatches(h[i], method).ok,
         v |-> IF status = "" THEN byMethod
               ELSE SelectSeq(byMethod, LAMBDA item : StatusMatches(item, status))]

\* route.ts:7-43.  A parameter of the query string is "" when not given.
HistoryGet ==
    \E limitText \in {"", "0", "2"}, offsetText \in {"", "1", "abc"},
       method \in {"", "get"}, status \in {"", "200"} :
        LET limit == ParseInt(IF limitText = "" THEN "50" ELSE limitText)
            offset == ParseInt(IF offsetText = "" THEN "0" ELSE offsetText)
            filteredHistory == Filtered(requestHistory, method, status)
            total == Len(filteredHistory.v)
            sum == Plus(offset, limit)
        IN  /\ hresp = NoResp
            /\ hresp' =
                  IF ~filteredHistory.ok THEN HistoryThrew
                  ELSE [status |-> 200,
                        body |-> [history |-> Slice(filteredHistory.v, offset, sum),
                                  pagination |->
                                      [total |-> total,
                                       limit |-> JsonValue(limit),
                                       offset |-> JsonValue(offset),
                                       hasMore |-> sum.t = "number" /\ sum.n < total],
                                  filters |-> [method |-> method, status |-> status]]]
            /\ hprev' = requestHistory
            /\ UNCHANGED <<requestHistory, saves, notHistory>>

\* Bodies of POST: not JSON, null, or an object.
HistoryBodies ==
    {BodyNotJson, Null}
    \cup {[action |-> "save", request |-> r, response |-> x] :
            r \in {("id" :> Str("a")) @@ ("method" :> Str("GET")),
                   "method" :> Str("POST"),
                   "method" :> Num(5),
                   Undef},
            x \in {Undef, Obj(Num(200))}}
    \cup {[action |-> a, request |-> Undef, response |-> Undef] : a \in {"clear", "purge"}}

HistoryError(status, message) == [status |-> status, body |-> [error |-> message]]

\* route.ts:45-98
HistoryPost ==
    \E b \in HistoryBodies :
        /\ hresp = NoResp
        /\ hprev' = requestHistory
        /\ IF b \in {BodyNotJson, Null}
           THEN /\ hresp' = HistoryError(500, "Failed to process history request")
                /\ UNCHANGED <<requestHistory, saves>>
           ELSE IF b.action = "save" /\ b.request # Undef
           THEN /\ saves < MaxSaves
                /\ LET historyItem == HistoryItem(b.request, b.response, SaveTime(saves))
                   IN  /\ requestHistory' = Kept(<<historyItem>> \o requestHistory)
                       /\ hresp' = [status |-> 200,
                                    body |-> [success |-> TRUE, id |-> historyItem.id,
                                              total |-> Len(requestHistory')]]
                /\ saves' = saves + 1
           ELSE IF b.action = "clear"
           THEN /\ requestHistory' = <<>>
                /\ hresp' = [status |-> 200,
                             body |-> [success |-> TRUE, message |-> "History cleared",
                                       total |-> 0]]
                /\ UNCHANGED saves
           ELSE /\ hresp' = HistoryError(400, "Invalid action. Use \"save\" or \"clear\".")
                /\ UNCHANGED <<requestHistory, saves>>
        /\ UNCHANGED notHistory

\* A test that also holds when items were removed.
NotLonger(before, after) == Len(after) <= Len(before)
\* route.ts:115
NotFound(before, after) == Len(after) = Len(before)

\* route.ts:100-135.  The id parameter is "" when not given.
HistoryDelete ==
    \E id \in {"", "a", "req_1000", "none"} :
        /\ hresp = NoResp
        /\ hprev' = requestHistory
        /\ IF id = ""
           THEN /\ hresp' = HistoryError(400, "Missing required parameter: id")
                /\ UNCHANGED requestHistory
           ELSE /\ requestHistory' = SelectSeq(requestHistory, LAMBDA item : item.id # Str(id))
                /\ hresp' = IF NotFound(requestHistory, requestHistory')
                            THEN HistoryError(404, "Request not found")
                            ELSE [status |-> 200,
                                  body |-> [success |-> TRUE, message |-> "Request deleted",
                                            total |-> Len(requestHistory')]]
        /\ UNCHANGED <<saves, notHistory>>

\* The response, or the fault, reaches the client; the next request is
\* handled after it.
HistoryDeliver ==
    /\ hresp # NoResp
    /\ hresp' = NoResp
    /\ hprev' = <<>>
    /\ UNCHANGED <<requestHistory, saves, notHistory>>

HistoryNext ==
    \/ HistoryGet
    \/ HistoryPost
    \/ HistoryDelete
    \/ HistoryDeliver

HistoryInit ==
    /\ InitEval
    /\ InitConsole
    /\ InitProxy
    /\ InitPage
    /\ \E k \in StartSizes : InitHistory(Filled(k))

HistorySpec == HistoryInit /\ [][HistoryNext]_vars

(***************************************************************************)
(* The proxy route (src/app/api/proxy/route.ts): POST.                     *)
(***************************************************************************)
\* route.ts:6: timeout = 10000
DefaultTimeout == 10000
\* Bodies of POST: method, url, headers, body and timeout as sent.
ProxyBodies ==
    {BodyNotJson}
    \cup {[method |-> m, url |-> u, headers |-> h, body |-> b, timeout |-> t] :
            m \in {Undef, Str("get"), Str("post")},
            u \in {Undef, Str("not a url"), Str("http://upstream/")},
            h \in {Undef, "Content-Type" :> "application/json"},
            b \in {Undef, Obj(Num(1))},
            t \in {Undef, Num(50)}}
\* String.prototype.toUpperCase on the methods of the model.
ToUpperCase(t) == CASE t = "get" -> "GET" [] t = "post" -> "POST" [] OTHER -> t

\* What the await of fetch ends with: a response of the upstream, or a
\* rejection with an error.
UpstreamResponses ==
    {[ok |-> TRUE, status |-> 200, contentType |-> "application/json", data |-> Obj(Num(1))],
     [ok |-> TRUE, status |-> 404, contentType |-> "text/plain", data |-> Str("no")]}
\* fetch failed: TypeError: fetch failed
FetchFailed == [ok |-> FALSE, error |-> Err("TypeError", "fetch failed")]
\* The signal of AbortSignal.timeout(ms) aborts with a DOMException named
\* TimeoutError, and fetch rejects with that reason.
TimedOut == [ok |-> FALSE, error |-> Err("TimeoutError", "The operation was aborted due to timeout")]

\* route.ts:94-134: the catch clause.
ProxyCatch(error) ==
    IF error.name = "AbortError"
    THEN [status |-> 408, body |-> [error |-> "Request timeout", status |-> 408]]
    ELSE IF error.name = "TypeError" /\ error.message = "fetch failed"
         THEN [status |-> 500, body |-> [error |-> "Network error", status |-> 0]]
         ELSE [status |-> 500, body |-> [error |-> "Internal server error", status |-> 500]]

\* route.ts:5-45: POST up to the await of fetch.
ProxyReceive ==
    /\ proxyPc \in {"idle", "responded"}
    /\ fetched' = Null
    /\ \E b \in ProxyBodies :
        /\ proxyBody' = b
        /\ IF b = BodyNotJson
           THEN /\ proxyResp' = ProxyCatch(Err("SyntaxError", "Unexpected token"))
                /\ proxyPc' = "responded"
                /\ fetchOptions' = Null
           ELSE IF ~Truthy(b.url) \/ ~Truthy(b.method)
           THEN /\ proxyResp' = [status |-> 400,
                                 body |-> [error |-> "Missing required fields: url and method"]]
                /\ proxyPc' = "responded"
                /\ fetchOptions' = Null
           ELSE IF b.url # Str("http://upstream/")
           THEN \* new URL(url) throws (route.ts:17-24)
                /\ proxyResp' = [status |-> 400, body |-> [error |-> "Invalid URL format"]]
                /\ proxyPc' = "responded"
                /\ fetchOptions' = Null
           ELSE IF ToUpperCase(b.method.s) = "POST" /\ Truthy(b.body) /\ b.headers = Undef
           THEN \* headers['Content-Type'] of undefined (route.ts:38)
                /\ proxyResp' = ProxyCatch(GetProp(Undef, "Content-Type").v)
                /\ proxyPc' = "responded"
                /\ fetchOptions' = Null
           ELSE /\ fetchOptions' =
                      [method |-> ToUpperCase(b.method.s),
                       body |-> IF ToUpperCase(b.method.s) = "POST" THEN b.body ELSE Undef,
                       timeout |-> IF b.timeout = Undef THEN DefaultTimeout
                                   ELSE b.timeout.n]
                /\ proxyPc' = "fetching"
                /\ proxyResp' = NoResp
    /\ UNCHANGED notProxy

\* route.ts:48-92: the upstream answers within the timeout.  The body is
\* kept with its status and data fields.
ProxyForward ==
    /\ proxyPc = "fetching"
    /\ \E r \in UpstreamResponses :
          /\ fetched' = r
          /\ proxyResp' = [status |-> 200,
                           body |-> [status |-> r.status, data |-> r.data]]
    /\ proxyPc' = "responded"
    /\ UNCHANGED <<proxyBody, fetchOptions, notProxy>>

\* route.ts:48, 94-134: fetch rejects, for a failed connection or because
\* the timeout of its signal passed.
ProxyReject ==
    /\ proxyPc = "fetching"
    /\ \E r \in {FetchFailed, TimedOut} :
          /\ fetched' = r
          /\ proxyResp' = ProxyCatch(r.error)
    /\ proxyPc' = "responded"
    /\ UNCHANGED <<proxyBody, fetchOptions, notProxy>>

ProxyNext == ProxyReceive \/ ProxyForward \/ ProxyReject

ProxySpec == Init /\ [][ProxyNext]_vars

(***************************************************************************)
(* The dashboard (src/app/page.tsx:30-92).  A response is kept with the    *)
(* id of the request it answers, which the code does not store.            *)
(***************************************************************************)
\* Requests sent in a run.
MaxSends == 3
\* page.tsx:68: prev.slice(0, 49)
KeptBefore == 49

\* api-request-builder.tsx:161-168: the n-th request built.
ApiRequest(n) == [id |-> n]
\* page.tsx:54-61 (answered) and 73-80 (the catch clause).
ApiResponse(status, request) == [status |-> status, answers |-> request.id]

\* The Send button, disabled while loading (api-request-builder.tsx:227-228),
\* and page.tsx:36-49: handleRequestSend up to the await of fetch.
RequestSend ==
    /\ ~isLoading
    /\ sends < MaxSends
    /\ sends' = sends + 1
    /\ isLoading' = TRUE
    /\ activeRequest' = ApiRequest(sends + 1)
    /\ inFlight' = ApiRequest(sends + 1)
    /\ UNCHANGED <<activeResponse, pageHistory, notPage>>

\* page.tsx:51-69, 82-84: the proxy answered.
ResponseArrives ==
    /\ inFlight # Null
    /\ \E status \in {200, 500} :
        LET apiResponse == ApiResponse(status, inFlight)
        IN  /\ activeResponse' = apiResponse
            /\ pageHistory' =
                  <<[request |-> inFlight, response |-> apiResponse]>>
                  \o SubSeq(pageHistory, 1,
                            IF Len(pageHistory) < KeptBefore THEN Len(pageHistory)
                            ELSE KeptBefore)
    /\ isLoading' = FALSE
    /\ inFlight' = Null
    /\ UNCHANGED <<activeRequest, sends, notPage>>

\* page.tsx:71-84: fetch rejected, the catch clause.
RequestFails ==
    /\ inFlight # Null
    /\ activeResponse' = ApiResponse(0, inFlight)
    /\ isLoading' = FALSE
    /\ inFlight' = Null
    /\ UNCHANGED <<activeRequest, pageHistory, sends, notPage>>

\* page.tsx:87-92: an item of the history list is clicked; every item of
\* the list was stored with its response (page.tsx:66-69).
HistorySelect ==
    /\ \E i \in 1..Len(pageHistory) :
        /\ activeRequest' = pageHistory[i].request
        /\ activeResponse' = pageHistory[i].response
    /\ UNCHANGED <<isLoading, pageHistory, inFlight, sends, notPage>>

PageNext == RequestSend \/ ResponseArrives \/ RequestFails \/ HistorySelect

PageSpec == Init /\ [][PageNext]_vars

(***************************************************************************)
(* Vocabulary of the properties.                                           *)
(***************************************************************************)
Responded == pc = "responded"
\* The handler has ended, by returning or by throwing.
Ended == pc \in {"responded", "escaped"}
Has(field) == field \in DOMAIN resp.body
\* The snippet's code was started in this call.
Executed == runs > 0

\* The (type, args) of captured entries.
Captured(rs) == [i \in 1..Len(rs) |-> [type |-> rs[i].type, args |-> rs[i].args]]

HasLogs(prog) == \E i \in 1..Len(prog) : prog[i].op = "log"
WithoutLogs(prog) == SelectSeq(prog, LAMBDA st : st.op # "log")

\* How a snippet free of console calls ends, by the language's semantics:
\* it completes with a value, or it throws or loops.
Completion(prog, sc) ==
    IF prog = <<>> THEN [completes |-> TRUE, v |-> Undef]
    ELSE IF prog[1].op = "return"
         THEN LET r == Evaluate(prog[1].e, sc, host)
              IN  [completes |-> r.ok, v |-> r.v]
         ELSE [completes |-> FALSE, v |-> Undef]

\* The response reports success with the value v.
SucceededWith(v) ==
    /\ Has("success") /\ resp.body.success
    /\ IF JsonValue(v).t = "undefined" THEN ~Has("result")
       ELSE Has("result") /\ resp.body.result = JsonValue(v)

\* The snippet is at its loop statement.
AtLoop == pc = "running" /\ ip <= Len(code.prog) /\ code.prog[ip].op = "loop"
\* The snippet stopped at a throw statement.
AtThrow == Executed /\ ip <= Len(code.prog) /\ code.prog[ip].op = "throw"

TypeOK ==
    /\ pc \in {"idle", "json", "admit", "scan", "compile", "running", "returned",
               "catch", "responded", "escaped"}
    /\ body \in Bodies
    /\ now \in 0..MaxNow /\ startTime \in 0..MaxNow
    /\ runs \in 0..1 /\ sent \in 0..1
    /\ resp.status \in {0, 200, 400}
    /\ (resp.status = 0) = (sent = 0)

(***************************************************************************)
(* What does hold of the handler.                                          *)
(***************************************************************************)
\* Code over the maximum length is never run, and is answered 400.
TooLongNeverRuns ==
    (code.t = "string" /\ code.len > MaxCodeLength) =>
        (~Executed /\ (Responded => resp.status = 400))

\* The empty string and a code that is no string are never run.
UnadmittedNeverRuns ==
    (body.t = "body" /\ AdmissionResponse(body.code) # NoResp) => ~Executed

\* return response.a + 1; with response = {a: 1} is answered 200 with 2.
RoundTripGivesTwo ==
    (Responded /\ code = snippetRoundTrip /\ context = Ctx(Obj(Num(1)), Undef)) =>
        (resp.status = 200 /\ SucceededWith(Num(2)))

\* A thrown Error instance is answered 200, success=false, with its message.
ThrownErrorIsReported ==
    (Responded /\ AtThrow /\ code.prog[ip].v.t = "Error") =>
        /\ resp.status = 200
        /\ ~resp.body.success
        /\ resp.body.error = Str(code.prog[ip].v.message)

(***************************************************************************)
(* Properties of the evaluation endpoint.                                  *)
(***************************************************************************)
\* C1: when a snippet that was run is answered, the console of the response
\* holds exactly one entry per console call the snippet made, in program
\* order, each with the type and the arguments of its call.
C1_ConsoleIsTheCalls ==
    (Responded /\ Executed) => Captured(resp.body.console) = calls

\* C2: console calls are observers: a snippet with console calls whose text
\* without them completes with a value v is answered success=true with v.
C2_LogsDoNotAlterOutcome ==
    (Responded /\ Executed /\ HasLogs(code.prog)) =>
        LET c == Completion(WithoutLogs(code.prog), safeContext(context))
        IN  (c.completes /\ Stringify(c.v).ok) => SucceededWith(c.v)

\* C3: a call whose snippet is in an unconditional infinite loop is
\* eventually answered (the evaluation is aborted at the deadline).
C3_LoopIsAnswered == AtLoop ~> (sent = 1)

\* C4: every response has a console sequence and is either success=true
\* with the result set, or success=false with an error.
C4_ResultShape ==
    Responded =>
        /\ Has("console")
        /\ Has("success")
        /\ IF resp.body.success THEN Has("result") ELSE Has("error")

\* C5: the handler never throws: when it has ended it has returned exactly
\* one response.
C5_NoFaultEscapes == Ended => (pc = "responded" /\ sent = 1)

\* C6: code that is empty after trimming is rejected and never run.
C6_BlankCodeNeverRuns ==
    (code.t = "string" /\ EmptyAfterTrim(code)) =>
        (~Executed /\ (Responded => resp.status = 400))

\* C7: code longer than the maximum is rejected without being run, and the
\* response reports no console entries and an execution time of 0.
C7_TooLongReport ==
    (Responded /\ code.t = "string" /\ code.len > MaxCodeLength) =>
        /\ ~Executed
        /\ resp.status = 400
        /\ (~Has("console") \/ resp.body.console = <<>>)
        /\ Has("executionTime") /\ resp.body.executionTime = 0

\* C8: a body whose code is missing, not a string or too long is answered
\* with success=false, an empty console and an error message.
C8_RejectionShape ==
    (Responded /\ body.t = "body" /\ AdmissionResponse(code) # NoResp) =>
        /\ Has("success") /\ ~resp.body.success
        /\ Has("console") /\ resp.body.console = <<>>
        /\ Has("error")

\* C9: an admitted snippet that refers only to names of the capability
\* context and completes with a value v is answered success=true with v,
\* whatever words its text holds.
C9_ContextOnlySnippetSucceeds ==
    (Responded /\ body.t = "body" /\ AdmissionResponse(code) = NoResp
        /\ ~EmptyAfterTrim(code) /\ code.parses
        /\ code.free \subseteq {safeContextKeys[i] : i \in 1..Len(safeContextKeys)}) =>
        LET c == Completion(WithoutLogs(code.prog), safeContext(context))
        IN  (c.completes /\ Stringify(c.v).ok) => SucceededWith(c.v)

\* C10: a value thrown by the snippet is answered success=false with an
\* error, which is the message of the thrown value when that is an Error.
C10_ThrownBecomesFault ==
    (Responded /\ AtThrow) =>
        /\ Has("success") /\ ~resp.body.success
        /\ Has("error")
        /\ (code.prog[ip].v.t = "Error" => resp.body.error = Str(code.prog[ip].v.message))

\* The names bound in the capability context.
ContextNames == {safeContextKeys[i] : i \in 1..Len(safeContextKeys)}

\* C11: a snippet that was run and refers to an identifier not bound in the
\* capability context is answered success=false with an error.
C11_OnlyContextNamesResolve ==
    (Responded /\ Executed /\ code.free \ ContextNames # {}) =>
        /\ Has("success") /\ ~resp.body.success
        /\ Has("error")

\* C12: no evaluation obtains the Function constructor or the host's
\* global object as the value of its snippet.
C12_NoCodeConstructionNoGlobal ==
    Executed => fnResult.result \notin {Builtin("Function"), Builtin("globalThis")}

\* C13: the answer to a snippet that is one return statement is the one it
\* gets in a process with no earlier evaluations: success=true with the
\* value of its expression over its own context.
C13_AnswerIgnoresHistory ==
    (Responded /\ Executed /\ Len(code.prog) = 1 /\ code.prog[1].op = "return") =>
        LET r == Evaluate(code.prog[1].e, safeContext(body.context), PristineHost)
        IN  (r.ok /\ Stringify(r.v).ok) => SucceededWith(r.v)

\* The property a of the response the call's own body supplies.
GivenA ==
    IF body.t = "body" /\ body.context.t = "context"
          /\ body.context.response.t = "object"
    THEN body.context.response.a
    ELSE Undef

\* C14: after some snippet has assigned to its response, a snippet that
\* returns response.a + n is still answered with the a of the response its
\* own call supplied (NaN when it supplied none).
C14_ResponseIsOwnInput ==
    (mutated /\ Responded /\ Executed /\ Len(code.prog) = 1
        /\ code.prog[1].op = "return" /\ code.prog[1].e.e = "response.a+") =>
        /\ resp.status = 200
        /\ SucceededWith(IF GivenA.t = "number"
                         THEN Num(GivenA.n + code.prog[1].e.n) ELSE NaN)

\* An evaluation that reads response.a is answered after an earlier one
\* assigned to its response.
C14_Witness ==
    /\ mutated /\ Responded /\ Executed
    /\ code = snippetRoundTrip
    /\ resp.status = 200 /\ resp.body.result = Num(2)

\* C15: when a snippet that was run is answered, the context object POST
\* parsed from the body and passed to safeEval is as it was parsed.
C15_CallerContextUnchanged ==
    (Responded /\ Executed) => context = body.context

\* The snippet is about to run its first statement.
AtStart == pc = "running" /\ ip = 1
\* The body supplies no context, or a context without the field.
Absent(field) ==
    body.context.t = "undefined" \/ body.context[field].t = "undefined"

\* C16: when the snippet starts, response and request are the empty object
\* wherever the body supplied no context or no such field.
C16_AbsentIsEmptyObject ==
    AtStart =>
        /\ Absent("response") => scope.response = Obj(Undef)
        /\ Absent("request") => scope.request = Obj(Undef)

\* A snippet starts on a context that has a request and no response.
C16_Witness ==
    /\ AtStart
    /\ body.context = Ctx(Undef, Obj(Num(2)))
    /\ scope = [response |-> Obj(Undef), request |-> Obj(Num(2))]

\* The body has a code that passes the checks of presence, type and length.
Admitted == body.t = "body" /\ AdmissionResponse(body.code) = NoResp
\* Names of capabilities outside the evaluation: timers, network, modules,
\* the process.
ExternalCapabilities ==
    {dangerousKeywords[i] : i \in 1..Len(dangerousKeywords)} \cup {"setImmediate"}
CategoryOf(error) == IF "category" \in DOMAIN error THEN error.category ELSE "none"

\* C17: an admitted snippet that refers to an external capability is
\* answered success=false with an error of category CapabilityViolation.
C17_CapabilityViolationReported ==
    (Responded /\ Admitted /\ code.parses /\ code.free \cap ExternalCapabilities # {}) =>
        /\ Has("success") /\ ~resp.body.success
        /\ Has("error") /\ CategoryOf(resp.body.error) = "CapabilityViolation"

\* return foo; is answered 200, success=false, "foo is not defined".
UnboundNameReport ==
    (Responded /\ code = snippetReferenceError) =>
        /\ resp.status = 200
        /\ ~resp.body.success
        /\ resp.body.error = Str("foo is not defined")

\* C18: a snippet the scan rejects is answered as a reference to an unbound
\* name is: status 200 and the error "<name> is not defined" for a name of
\* the snippet.
C18_ScanHitLooksUnbound ==
    (Responded /\ Admitted /\ ScanError(code) # NoThrow) =>
        /\ resp.status = 200
        /\ Has("error")
        /\ \E n \in code.free : resp.body.error = Str(n \o " is not defined")

\* C19: a response with a 4xx status is returned only for a call that ran
\* no snippet code.
C19_RanMeansOk == (Responded /\ resp.status >= 400) => ~Executed

\* C20: the snippet is run at most once per call, and only with a code that
\* is present, a string, within the length and free of every forbidden
\* keyword and pattern; a call that fails a check is answered 400 with an
\* error.
C20_RunOnceAfterChecks ==
    /\ runs <= 1
    /\ Executed =>
          /\ body.t = "body" /\ body.code.t = "string"
          /\ body.code.len >= 1 /\ body.code.len <= MaxCodeLength
          /\ KeywordHits(body.code) = {} /\ PatternHits(body.code) = {}
    /\ (Responded /\ ~Executed /\ body.t = "body") =>
          (resp.status = 400 /\ Has("error"))

\* An evaluation that faulted is answered, having run once.
C20_Witness ==
    /\ Responded /\ Executed /\ runs = 1
    /\ code = snippetThrowError
    /\ ~resp.body.success

\* The texts the scan forbids: the keywords, and what the patterns match.
ForbiddenTexts ==
    {"eval", "Function", "setTimeout", "setInterval", "clearTimeout",
     "clearInterval", "XMLHttpRequest", "fetch", "import", "require", "process",
     "global", "__dirname", "__filename", "Buffer", "module", "exports",
     "constructor", "prototype", "__proto__", "window", "document", "location",
     "navigator", "this."}
TextHasForbidden(c) == \E i \in 1..Len(c.atoms) : c.atoms[i] \in ForbiddenTexts
\* The error messages of a rejection by the scan.
ScanMessages ==
    {"Unsafe code detected: " \o dangerousKeywords[i] \o " is not allowed" :
        i \in 1..Len(dangerousKeywords)}
    \cup {"Unsafe code pattern detected: " \o dangerousPatterns[i] :
        i \in 1..Len(dangerousPatterns)}
RejectedByScan ==
    Responded /\ resp.status = 400 /\ Has("error")
        /\ resp.body.error \in {Str(m) : m \in ScanMessages}

C23_FaultKeepsLog ==
    (Responded /\ Executed /\ Has("success") /\ ~resp.body.success) =>
        (Has("console") /\ Captured(resp.body.console) = calls)

(***************************************************************************)
(* Properties of the JavaScript console component.                         *)
(***************************************************************************)
ResultEntries(log) == {i \in 1..Len(log) : log[i].type = "result"}
\* The log is the entries of captured followed by one result entry with v.
EndsWithResult(log, captured, v) ==
    /\ Len(log) = Len(captured) + 1
    /\ Captured(SubSeq(log, 1, Len(captured))) = Captured(captured)
    /\ ResultEntries(log) = {Len(log)}
    /\ log[Len(log)].args = <<v>>

\* C21: the log assembled for an evaluation ends with one result entry
\* carrying the returned value, after the captured entries, exactly when
\* the evaluation succeeded and returned a value other than undefined;
\* otherwise it has no result entry.
C21_ResultEntryIffValue ==
    shown # NoShown =>
        IF shown.ran.success /\ shown.ran.result # Undef
        THEN EndsWithResult(consoleOutput, shown.ran.console, shown.ran.result)
        ELSE ResultEntries(consoleOutput) = {}

\* C29: at most one /api/eval request of the console is in flight.
C29_OneRequestInFlight == Len(flights) <= 1

(***************************************************************************)
(* Properties of the history route.                                        *)
(***************************************************************************)
\* The response in hand answers a save, a GET, an error.
SaveAnswered == hresp.status = 200 /\ "id" \in DOMAIN hresp.body
GetAnswered == hresp.status = 200 /\ "pagination" \in DOMAIN hresp.body
NewestFirst(h) == \A i \in 1..(Len(h) - 1) : h[i].timestamp > h[i + 1].timestamp

\* C24: the store never holds more than 1000 items, they are in the order
\* newest-saved first, and a save puts its item first and keeps the items
\* there were, except that from a full store the one saved earliest (the
\* last) is dropped.
C24_CapacityAndEviction ==
    /\ Len(requestHistory) <= MaxHistory
    /\ NewestFirst(requestHistory)
    /\ SaveAnswered =>
          /\ requestHistory[1].id = hresp.body.id
          /\ Tail(requestHistory) =
                IF Len(hprev) = MaxHistory THEN SubSeq(hprev, 1, MaxHistory - 1)
                ELSE hprev

\* A save into a full store has been answered.
C24_Witness ==
    /\ SaveAnswered
    /\ Len(hprev) = MaxHistory /\ Len(requestHistory) = MaxHistory
    /\ requestHistory[MaxHistory] = hprev[MaxHistory - 1]

\* C25: every request to the history route is answered: no handler throws.
C25_HistoryAlwaysAnswers == hresp # HistoryThrew

C28_ErrorLeavesStore == hresp.status >= 400 => requestHistory = hprev

\* A DELETE of an id that no item of a store with items has is answered 404.
C28_Witness ==
    /\ hresp.status = 404
    /\ requestHistory # <<>>

(***************************************************************************)
(* Properties of the proxy route.                                          *)
(***************************************************************************)
\* The generic answer stays for errors that are neither: a body that is no
\* JSON is answered 500 'Internal server error'.
NotJsonIsInternalError ==
    (proxyPc = "responded" /\ proxyBody = BodyNotJson) =>
        (proxyResp.status = 500 /\ proxyResp.body.error = "Internal server error")

\* C26: when the outbound request did not complete within the timeout, the
\* proxy answers with status 408 and the error 'Request timeout'.
C26_TimeoutIsAnswered408 ==
    (proxyPc = "responded" /\ fetched = TimedOut) =>
        (proxyResp.status = 408 /\ proxyResp.body.error = "Request timeout")

(***************************************************************************)
(* Properties of the dashboard.                                            *)
(***************************************************************************)
\* While a send is in flight the active request is shown as loading.
LoadingWhileInFlight == isLoading = (inFlight # Null)

\* C30: when no send is in flight and a response is shown, it is the
\* response to the active request.
C30_ResponseOfActiveRequest ==
    (~isLoading /\ activeResponse # Null) =>
        (activeRequest # Null /\ activeResponse.answers = activeRequest.id)

====
